---- MODULE Spec2Model ----
(***************************************************************************)
(* Local data-persistence layer of organizador-gastos:                     *)
(*   - SafeStorage (src/safeStorage.js): error-contained access to         *)
(*     localStorage with an in-memory fallback map;                        *)
(*   - DataManager (src/dataManager.js): the repository of the domain      *)
(*     collections, its change fingerprint, the bounded auto-save history, *)
(*     restore, export and import;                                         *)
(*   - EventBus (src/eventBus.js): listeners by priority, once, emit;      *)
(*   - SmartAutoSave (src/smartAutoSave.js): the adaptive save scheduler;  *)
(*   - CloudSync (src/unnamed/part_002, part_003): pull and push of the    *)
(*     collections to /api/sync.                                           *)
(*                                                                         *)
(* Strings.  A stored string is a record: JsonText(x) is the text          *)
(* JSON.stringify(x) of the value x, RawStr(t) is the literal text t       *)
(* (which is not the JSON text of a list or of an object).  Null is the    *)
(* JavaScript null that localStorage.getItem returns for an absent key.    *)
(***************************************************************************)
EXTENDS Integers, Sequences, FiniteSets, TLC

VARIABLES
    store,        \* safeStorage + localStorage: [isAvailable, ls, fallbackData]
    ssRef,        \* a second SafeStorage over a localStorage that always works
    ssLast,       \* the last SafeStorage call, its arguments and both results
    lastDataHash, \* DataManager.lastDataHash: Null or Some(hash)
    now,          \* Date.now(), in milliseconds
    timers,       \* due times of the pending setTimeout(() => autoSave(), 100)
    file,         \* the file written by the last saveToFile, and the state it was taken in
    committed,    \* per collection, the list handed to the last mutating call
    burst,        \* the mutating calls made since the timer queue was last empty
    dmLast,       \* the last DataManager call: its name, arguments, result and events
    events,       \* EventBus.events: event name -> listeners in insertion order
    unsubs,       \* the functions returned by on/once, in the order of the calls
    ebLast,       \* the last EventBus call: its arguments, its result, the map before
    sas,          \* SmartAutoSave: [config, state]
    sasTimers,    \* SmartAutoSave.timers: the due time of each pending timer
    sasLast,      \* the last step of the scheduler
    cs,           \* CloudSync: isAuthenticated, syncInProgress, the status shown
    net,          \* the requests to /api/sync that have not settled yet
    remote,       \* the body of the last POST the server received, Null before any
    csLast        \* the last CloudSync step: its name, what it sent, what it found

ssVars == <<store, ssRef, ssLast>>
dmVars == <<lastDataHash, now, timers, file, committed, burst, dmLast>>
ebVars == <<events, unsubs, ebLast>>
\* the components a SafeStorage or DataManager call leaves alone
sasVars == <<sas, sasTimers, sasLast>>
csVars == <<cs, net, remote, csLast>>
outsideVars == <<ebVars, sasVars, csVars>>
vars == <<store, ssRef, ssLast, lastDataHash, now, timers, file, committed, burst, dmLast,
          events, unsubs, ebLast, sas, sasTimers, sasLast,
          cs, net, remote, csLast>>

-----------------------------------------------------------------------------
(* Strings and JavaScript values *)

Null == [has |-> FALSE]
RawStr(t) == [has |-> TRUE, json |-> FALSE, v |-> t]
JsonText(x) == [has |-> TRUE, json |-> TRUE, v |-> x]

\* !s for a string-or-null s: null and the empty string are falsy
Falsy(s) == IF s.has THEN (IF s.json THEN FALSE ELSE s.v = "") ELSE TRUE

\* a JavaScript value handed to setItem: its type and the text String(value)
JsString(str) == [t |-> "string", s |-> str, n |-> 0]
JsNumber(n) == [t |-> "number", s |-> RawStr(""), n |-> n]
\* typeof value === 'string' ? value : String(value)
String(value) == IF value.t = "string" THEN value.s ELSE RawStr(ToString(value.n))

Some(x) == [has |-> TRUE, v |-> x]

\* !key || typeof key !== 'string'
BadKey(key) == key = ""

-----------------------------------------------------------------------------
(* localStorage: a map from key to string; setItem throws when the quota is *)
(* exceeded (the input quota says whether this write exceeds it)            *)

LsGetItem(ls, key) == ls[key]
LsSetItem(ls, key, str) == [ls EXCEPT ![key] = str]
LsRemoveItem(ls, key) == [ls EXCEPT ![key] = Null]

-----------------------------------------------------------------------------
(* SafeStorage *)

getIsolatedKey(key) == key

getItem(s, key, defaultValue) ==
    IF BadKey(key) THEN defaultValue
    ELSE IF s.isAvailable
         THEN LET item == LsGetItem(s.ls, getIsolatedKey(key))
              IN  IF item # Null THEN item ELSE defaultValue
         ELSE LET item == s.fallbackData[getIsolatedKey(key)]
              IN  IF Falsy(item) THEN defaultValue ELSE item

setItem(s, key, value, quota) ==
    IF BadKey(key) THEN [s |-> s, ret |-> FALSE]
    ELSE IF s.isAvailable
         THEN IF quota
              THEN \* localStorage.setItem threw: divert to the in-memory map
                   [s |-> [s EXCEPT !.fallbackData[getIsolatedKey(key)] = String(value)],
                    ret |-> TRUE]
              ELSE [s |-> [s EXCEPT !.ls = LsSetItem(s.ls, getIsolatedKey(key), String(value))],
                    ret |-> TRUE]
         ELSE [s |-> [s EXCEPT !.fallbackData[getIsolatedKey(key)] = String(value)],
               ret |-> TRUE]

removeItem(s, key) ==
    IF BadKey(key) THEN [s |-> s, ret |-> FALSE]
    ELSE IF s.isAvailable
         THEN [s |-> [s EXCEPT !.ls = LsRemoveItem(s.ls, getIsolatedKey(key))], ret |-> TRUE]
         ELSE [s |-> [s EXCEPT !.fallbackData[getIsolatedKey(key)] = Null], ret |-> TRUE]

hasItem(s, key) ==
    IF BadKey(key) THEN FALSE
    ELSE IF s.isAvailable
         THEN LsGetItem(s.ls, getIsolatedKey(key)) # Null
         ELSE s.fallbackData[getIsolatedKey(key)] # Null

parseJSON(jsonString, defaultValue) ==
    IF Falsy(jsonString) THEN defaultValue
    ELSE IF jsonString.json THEN jsonString.v ELSE defaultValue

stringifyJSON(data) == JsonText(data)

getJSON(s, key, defaultValue) ==
    LET jsonString == getItem(s, key, Null)
    IN  IF Falsy(jsonString) THEN defaultValue ELSE parseJSON(jsonString, defaultValue)

getObject(s, key, defaultValue) == getJSON(s, key, defaultValue)

setJSON(s, key, data, quota) == setItem(s, key, JsString(stringifyJSON(data)), quota)

-----------------------------------------------------------------------------
(* Values of the domain.  A record (expense, income, card), a category and  *)
(* an achievement are abstracted to their identity, a digit 1..9.  A field  *)
(* of a parsed bundle is a JSON value: a list, a non-list (a string) or     *)
(* undefined (the field is missing).                                        *)

Recs == {1, 2}
NoId == 0

JList(l) == [t |-> "list", v |-> l]
JUndefined == [t |-> "undefined", v |-> <<>>]
JNotAList == [t |-> "string", v |-> <<>>]

\* Array.isArray(x)
IsArray(j) == j.t = "list"
\* x || []  (a list is truthy, undefined is not)
OrEmpty(j) == IF j.t = "list" THEN j.v ELSE <<>>
\* if (data.monthlyGoal)
Truthy(str) == ~Falsy(str)

CURRENT_DATA_VERSION == "2.0"

Bundle(e, i, c, ci, ce, a, g, ts, ls, h, ver) ==
    [expensesData |-> e, incomeData |-> i, cards |-> c, catIncome |-> ci,
     catExpense |-> ce, achievements |-> a, monthlyGoal |-> g, timestamp |-> ts,
     lastSaved |-> ls, hash |-> h, version |-> ver]

\* {}: the object with no field
EmptyObject ==
    Bundle(JUndefined, JUndefined, JUndefined, JUndefined, JUndefined, JUndefined,
           Null, "", "", Null, "")

-----------------------------------------------------------------------------
(* The fingerprint: JSON.stringify of the current data, timestamp included, *)
(* reduced by hash = hash * 31 + charCode wrapped to a signed 32-bit        *)
(* integer.  The serialization keeps the punctuation and the values of the  *)
(* JSON text and leaves out the field names, which are the same in every    *)
(* text.                                                                    *)

RECURSIVE Digits(_)
Digits(n) == IF n < 10 THEN <<48 + n>> ELSE Digits(n \div 10) \o <<48 + (n % 10)>>

RECURSIVE SerItems(_)
SerItems(l) ==
    IF l = <<>> THEN <<>>
    ELSE IF Len(l) = 1 THEN <<48 + l[1]>>
    ELSE <<48 + l[1], 44>> \o SerItems(Tail(l))

SerList(l) == <<91>> \o SerItems(l) \o <<93>>

GoalChars(t) ==
    CASE t = "500" -> <<53, 48, 48>>
      [] t = "800" -> <<56, 48, 48>>
      [] OTHER -> <<>>

SerGoal(g) == IF g = Null THEN <<110>> ELSE <<34>> \o GoalChars(g.v) \o <<34>>

SerCurrentData(d, timestamp) ==
    <<123>> \o SerList(d.expensesData) \o <<44>> \o SerList(d.incomeData) \o <<44>>
    \o SerList(d.cards) \o <<44, 123>> \o SerList(d.catIncome) \o <<44>>
    \o SerList(d.catExpense) \o <<125, 44>> \o SerList(d.achievements) \o <<44>>
    \o SerGoal(d.monthlyGoal) \o <<44>> \o Digits(timestamp) \o <<125>>

\* the 32-bit value is carried as two 16-bit halves
RECURSIVE HashFrom(_, _, _, _)
HashFrom(hi, lo, chars, i) ==
    IF i > Len(chars) THEN <<hi, lo>>
    ELSE LET l == lo * 31 + chars[i]
             h == (hi * 31 + (l \div 65536)) % 65536
         IN  HashFrom(h, l % 65536, chars, i + 1)

\* hash & hash: the signed 32-bit integer
ToInt32(hl) ==
    IF hl[1] >= 32768 THEN (hl[1] - 65536) * 65536 + hl[2] ELSE hl[1] * 65536 + hl[2]

RollingHash(chars) == ToInt32(HashFrom(0, 0, chars, 1))

-----------------------------------------------------------------------------
(* DataManager: accessors (useFallback is false: safeStorage is imported)   *)

getExpenses(s) == getJSON(s, "expensesData", <<>>)
getIncomes(s) == getJSON(s, "incomeData", <<>>)
getCards(s) == getJSON(s, "cards", <<>>)
getExpenseCategories(s) == getJSON(s, "expense-categories", <<>>)
getIncomeCategories(s) == getJSON(s, "income-categories", <<>>)
getAchievements(s) == getJSON(s, "achievements", <<>>)
getMonthlyGoal(s) == getItem(s, "monthlyExpenseGoal", Null)

getAllData(s) ==
    [expensesData |-> getExpenses(s), incomeData |-> getIncomes(s), cards |-> getCards(s)]

\* the seven domain collections as the accessors return them
Collections(s) ==
    [expensesData |-> getExpenses(s), incomeData |-> getIncomes(s), cards |-> getCards(s),
     catIncome |-> getIncomeCategories(s), catExpense |-> getExpenseCategories(s),
     achievements |-> getAchievements(s), monthlyGoal |-> getMonthlyGoal(s)]

\* the same seven collections as a bundle holds them
BundleCollections(b) ==
    [expensesData |-> OrEmpty(b.expensesData), incomeData |-> OrEmpty(b.incomeData),
     cards |-> OrEmpty(b.cards), catIncome |-> OrEmpty(b.catIncome),
     catExpense |-> OrEmpty(b.catExpense), achievements |-> OrEmpty(b.achievements),
     monthlyGoal |-> b.monthlyGoal]

AUTO_SAVE_DELAY == 100

\* notifyDataChange: two events on the bus and a deferred autoSave
NotifyEvents == <<"data:updated", "ui:dashboard:update:request">>
notifyDataChange(tm, t) == Append(tm, t + AUTO_SAVE_DELAY)

saveExpenses(s, expenses) == setJSON(s, "expensesData", expenses, FALSE).s
SaveIncomesUnderExpensesKey(s, incomes) == setJSON(s, "expensesData", incomes, FALSE).s
saveIncomes(s, incomes) == setJSON(s, "incomeData", incomes, FALSE).s
saveCards(s, cards) == setJSON(s, "cards", cards, FALSE).s
saveExpenseCategories(s, categories) == setJSON(s, "expense-categories", categories, FALSE).s
saveIncomeCategories(s, categories) == setJSON(s, "income-categories", categories, FALSE).s

\* expense.id is minted when it is missing
WithId(record, minted) == IF record = NoId THEN minted ELSE record

addExpense(s, expense, minted) ==
    saveExpenses(s, Append(getExpenses(s), WithId(expense, minted)))
addIncome(s, income, minted) ==
    saveIncomes(s, Append(getIncomes(s), WithId(income, minted)))
addCard(s, card, minted) ==
    saveCards(s, Append(getCards(s), WithId(card, minted)))

-----------------------------------------------------------------------------
(* DataManager: fingerprint, auto-save and its history                      *)

maxAutoSaveVersions == 20

CurrentData(s) == Collections(s)

generateDataHash(s, t) == RollingHash(SerCurrentData(CurrentData(s), t))

\* localStorage used directly, not through safeStorage
LsWrite(s, key, str) == [s EXCEPT !.ls = LsSetItem(s.ls, key, str)]

\* JSON.parse(localStorage.getItem('autoSaveHistory') || '[]')
getAutoSaveVersions(s) ==
    LET str == LsGetItem(s.ls, "autoSaveHistory")
    IN  IF Falsy(str) THEN <<>> ELSE str.v

KeepEveryVersion(h) == h
\* unshift, then slice(0, maxAutoSaveVersions)
Truncate(h) ==
    IF Len(h) > maxAutoSaveVersions THEN SubSeq(h, 1, maxAutoSaveVersions) ELSE h

saveAutoSaveVersion(s, data, t) ==
    LET entry == [id |-> t, timestamp |-> data.timestamp, data |-> data, hash |-> data.hash]
        autoSaveHistory == Truncate(<<entry>> \o getAutoSaveVersions(s))
    IN  LsWrite(s, "autoSaveHistory", JsonText(autoSaveHistory))

SaveData(s, currentHash, t) ==
    LET c == Collections(s)
    IN  Bundle(JList(c.expensesData), JList(c.incomeData), JList(c.cards),
               JList(c.catIncome), JList(c.catExpense), JList(c.achievements),
               c.monthlyGoal, ToString(t), "", Some(currentHash), CURRENT_DATA_VERSION)

HashChanged(lastHash, currentHash) ==
    IF lastHash = Null THEN TRUE ELSE lastHash.v # currentHash

\* autoSave that adds the version to the history and leaves appData alone
AutoSaveHistoryOnly(s, lastHash, t) ==
    LET currentHash == generateDataHash(s, t)
    IN  IF HashChanged(lastHash, currentHash)
        THEN [s |-> saveAutoSaveVersion(s, SaveData(s, currentHash, t), t),
              lastDataHash |-> Some(currentHash), saved |-> TRUE,
              events |-> <<"data:autosave:success">>]
        ELSE [s |-> s, lastDataHash |-> lastHash, saved |-> FALSE, events |-> <<>>]

autoSave(s, lastHash, t) ==
    LET currentHash == generateDataHash(s, t)
    IN  IF HashChanged(lastHash, currentHash)
        THEN LET saveData == SaveData(s, currentHash, t)
                 s1 == saveAutoSaveVersion(s, saveData, t)
                 s2 == setItem(s1, "lastAutoSave", JsString(RawStr(saveData.timestamp)), FALSE).s
                 s3 == setJSON(s2, "appData", saveData, FALSE).s
             IN  [s |-> s3, lastDataHash |-> Some(currentHash), saved |-> TRUE,
                  events |-> <<"data:autosave:success">>]
        ELSE [s |-> s, lastDataHash |-> lastHash, saved |-> FALSE, events |-> <<>>]

\* autoSaveHistory.find(v => v.id === versionId): the first match, 0 for none
RECURSIVE FindVersion(_, _, _)
FindVersion(h, versionId, i) ==
    IF i > Len(h) THEN 0
    ELSE IF h[i].id = versionId THEN i ELSE FindVersion(h, versionId, i + 1)

RestoreWrites(s, data) ==
    LET s1 == LsWrite(s, "expensesData", JsonText(OrEmpty(data.expensesData)))
        s2 == LsWrite(s1, "incomeData", JsonText(OrEmpty(data.incomeData)))
        s3 == LsWrite(s2, "cards", JsonText(OrEmpty(data.cards)))
        s4 == LsWrite(s3, "income-categories", JsonText(OrEmpty(data.catIncome)))
        s5 == LsWrite(s4, "expense-categories", JsonText(OrEmpty(data.catExpense)))
        s6 == LsWrite(s5, "achievements", JsonText(OrEmpty(data.achievements)))
        s7 == IF Truthy(data.monthlyGoal)
              THEN LsWrite(s6, "monthlyExpenseGoal", data.monthlyGoal)
              ELSE s6
    IN  s7

RestoreNewestWhenNotFound(s, versionId) ==
    LET autoSaveHistory == getAutoSaveVersions(s)
        found == FindVersion(autoSaveHistory, versionId, 1)
        i == IF found = 0 /\ autoSaveHistory # <<>> THEN 1 ELSE found
    IN  IF i # 0
        THEN LET data == autoSaveHistory[i].data
             IN  [s |-> LsWrite(RestoreWrites(s, data), "appData", JsonText(data)),
                  ret |-> TRUE]
        ELSE [s |-> s, ret |-> FALSE]
restoreAutoSaveVersion(s, versionId) ==
    LET autoSaveHistory == getAutoSaveVersions(s)
        i == FindVersion(autoSaveHistory, versionId, 1)
    IN  IF i # 0
        THEN LET data == autoSaveHistory[i].data
             IN  [s |-> LsWrite(RestoreWrites(s, data), "appData", JsonText(data)),
                  ret |-> TRUE]
        ELSE [s |-> s, ret |-> FALSE]

clearAutoSaveHistory(s) == [s EXCEPT !.ls = LsRemoveItem(s.ls, "autoSaveHistory")]

-----------------------------------------------------------------------------
(* DataManager: export, import, startup                                     *)

\* the text of the downloaded file
saveToFile(s, t) ==
    LET c == Collections(s)
    IN  stringifyJSON(
            Bundle(JList(c.expensesData), JList(c.incomeData), JList(c.cards),
                   JList(c.catIncome), JList(c.catExpense), JList(c.achievements),
                   c.monthlyGoal, "", ToString(t), Null, CURRENT_DATA_VERSION))

ValidateExpensesOnly(data) == IsArray(data.expensesData)
validateDataStructure(data) ==
    /\ IsArray(data.expensesData)
    /\ IsArray(data.incomeData)
    /\ IsArray(data.cards)

\* six setJSON, each counted when it did not return false, then the goal
restoreDataSafely(s, data) ==
    LET r1 == setJSON(s, "expensesData", OrEmpty(data.expensesData), FALSE)
        r2 == setJSON(r1.s, "incomeData", OrEmpty(data.incomeData), FALSE)
        r3 == setJSON(r2.s, "cards", OrEmpty(data.cards), FALSE)
        r4 == setJSON(r3.s, "income-categories", OrEmpty(data.catIncome), FALSE)
        r5 == setJSON(r4.s, "expense-categories", OrEmpty(data.catExpense), FALSE)
        r6 == setJSON(r5.s, "achievements", OrEmpty(data.achievements), FALSE)
        count == Cardinality({k \in 1..6 : <<r1, r2, r3, r4, r5, r6>>[k].ret})
        r7 == IF Truthy(data.monthlyGoal)
              THEN setItem(r6.s, "monthlyExpenseGoal", JsString(data.monthlyGoal), FALSE).s
              ELSE r6.s
        successCount == IF Truthy(data.monthlyGoal) THEN count + 1 ELSE count
    IN  [s |-> r7, ret |-> successCount > 0]

\* text is Null when no file was selected; the promise resolves (ret) or rejects
loadFromFileInput(s, text) ==
    IF text = Null THEN [s |-> s, ret |-> FALSE, error |-> "Nenhum arquivo fornecido"]
    ELSE LET data == parseJSON(text, Null)
         IN  IF data = Null
             THEN [s |-> s, ret |-> FALSE, error |-> "Arquivo JSON invalido ou corrompido"]
             ELSE IF validateDataStructure(data)
                  THEN LET r == restoreDataSafely(s, data)
                       IN  IF r.ret
                           THEN [s |-> r.s, ret |-> TRUE, error |-> ""]
                           ELSE [s |-> r.s, ret |-> FALSE,
                                 error |-> "Falha ao restaurar dados no storage"]
                  ELSE [s |-> s, ret |-> FALSE, error |-> "Estrutura de dados invalida"]

\* only the 1.0 -> 1.1 step rewrites records (it defaults expenseType, a field
\* the record identities do not carry); every migration stamps toVersion
migrateData(data, fromVersion, toVersion) == [data EXCEPT !.version = toVersion]

loadInitialData(s) ==
    LET str == LsGetItem(s.ls, "appData")
        parsed == IF str = Null THEN EmptyObject
                  ELSE IF str.json THEN str.v ELSE EmptyObject
        storedVersion == IF parsed.version = "" THEN "1.0" ELSE parsed.version
        migrate == storedVersion # CURRENT_DATA_VERSION
        storedData == IF migrate
                      THEN migrateData(parsed, storedVersion, CURRENT_DATA_VERSION)
                      ELSE parsed
        s0 == IF migrate THEN LsWrite(s, "appData", JsonText(storedData)) ELSE s
        s1 == LsWrite(s0, "expensesData", JsonText(OrEmpty(storedData.expensesData)))
        s2 == LsWrite(s1, "incomeData", JsonText(OrEmpty(storedData.incomeData)))
        s3 == LsWrite(s2, "cards", JsonText(OrEmpty(storedData.cards)))
        s4 == LsWrite(s3, "income-categories", JsonText(OrEmpty(storedData.catIncome)))
        s5 == LsWrite(s4, "expense-categories", JsonText(OrEmpty(storedData.catExpense)))
        s6 == LsWrite(s5, "achievements", JsonText(OrEmpty(storedData.achievements)))
    IN  IF Truthy(storedData.monthlyGoal)
        THEN LsWrite(s6, "monthlyExpenseGoal", storedData.monthlyGoal)
        ELSE s6

-----------------------------------------------------------------------------
(* EventBus.  events maps an event name to its listeners in insertion order *)
(* (a Set iterates in insertion order).  A listener wrapper carries uid,    *)
(* the identity of the wrapper object: Set.delete(listener) removes by      *)
(* identity, off() searches by id.  A callback is named by what it does     *)
(* when called: it returns undefined, returns false, or throws.  An event   *)
(* that was never created and an event with no listener behave alike in     *)
(* on, off and emit, so every event name starts with no listener.           *)

EventNames == {"data:updated", "data:changed"}
Callbacks == {"returns", "returnsFalse", "throws"}
\* callbacks that call the bus they are called by, and return undefined:
\* one registers a new handler on the event, one calls the unsubscribe
\* function of every other registration, one emits the event again
BusCallbacks == {"registers", "unregisters", "emits"}
NoListeners == [e \in EventNames |-> <<>>]

\* typeof eventName !== 'string' || !eventName.trim()
BadEventName(eventName) == eventName = ""

\* options.id || `listener_${Date.now()}_${random}`: a generated id is fresh
NoListenerId == <<"", 0>>
GeneratedId(uid) == <<"listener", uid>>
ListenerOptions(once, priority, id) == [once |-> once, priority |-> priority, id |-> id]

listenerWrapper(callback, options, uid) ==
    [callback |-> callback, once |-> options.once, priority |-> options.priority,
     id |-> IF options.id = NoListenerId THEN GeneratedId(uid) ELSE options.id,
     uid |-> uid]

\* () => {}: the function returned when the registration failed
NoopUnsubscribe == [eventName |-> "", id |-> NoListenerId]

\* returns the new map and the closure () => this.off(eventName, listenerWrapper.id)
on(ev, eventName, callback, options, uid) ==
    IF BadEventName(eventName) \/ callback \notin Callbacks \cup BusCallbacks
    THEN [events |-> ev, unsub |-> NoopUnsubscribe]
    ELSE LET w == listenerWrapper(callback, options, uid)
         IN  [events |-> [ev EXCEPT ![eventName] = Append(@, w)],
              unsub |-> [eventName |-> eventName, id |-> w.id]]

once(ev, eventName, callback, options, uid) ==
    on(ev, eventName, callback, [options EXCEPT !.once = TRUE], uid)

\* the first listener, in insertion order, whose id is listenerId; 0 if none
RECURSIVE FirstWithId(_, _, _)
FirstWithId(listeners, listenerId, i) ==
    IF i > Len(listeners) THEN 0
    ELSE IF listeners[i].id = listenerId THEN i
    ELSE FirstWithId(listeners, listenerId, i + 1)

RemoveAt(seq, i) == SubSeq(seq, 1, i - 1) \o SubSeq(seq, i + 1, Len(seq))

off(ev, eventName, listenerId) ==
    IF eventName \notin DOMAIN ev THEN [events |-> ev, ret |-> FALSE]
    ELSE LET i == FirstWithId(ev[eventName], listenerId, 1)
         IN  IF i = 0 THEN [events |-> ev, ret |-> FALSE]
             ELSE [events |-> [ev EXCEPT ![eventName] = RemoveAt(@, i)], ret |-> TRUE]

\* Array.prototype.sort((a, b) => b.priority - a.priority): stable
InsertByPriority(sorted, w) ==
    LET before == SelectSeq(sorted, LAMBDA x : x.priority >= w.priority)
        after == SelectSeq(sorted, LAMBDA x : x.priority < w.priority)
    IN  before \o <<w>> \o after

InsertionOrder(listeners) == listeners
RECURSIVE SortByPriority(_)
SortByPriority(listeners) ==
    IF listeners = <<>> THEN <<>>
    ELSE InsertByPriority(SortByPriority(SubSeq(listeners, 1, Len(listeners) - 1)),
                          listeners[Len(listeners)])

EmitOptions(ignoreStopPropagation, removeOnError) ==
    [ignoreStopPropagation |-> ignoreStopPropagation, removeOnError |-> removeOnError]

\* the loop without its inner try/catch: a throw ends it
RECURSIVE StopOnThrow(_, _, _, _)
StopOnThrow(sortedListeners, i, acc, options) ==
    IF i > Len(sortedListeners) THEN acc
    ELSE LET listener == sortedListeners[i]
             called == [acc EXCEPT !.invoked = Append(@, listener.uid)]
         IN  IF listener.callback = "throws"
                \/ (listener.callback = "returnsFalse" /\ ~options.ignoreStopPropagation)
             THEN called
             ELSE StopOnThrow(sortedListeners, i + 1,
                      [called EXCEPT !.executedCount = @ + 1,
                                     !.listenersToRemove =
                                         IF listener.once THEN @ \cup {listener.uid} ELSE @],
                      options)

\* the for loop of emit; invoked lists the uids whose callback was called
RECURSIVE RunListeners(_, _, _, _)
RunListeners(sortedListeners, i, acc, options) ==
    IF i > Len(sortedListeners) THEN acc
    ELSE LET listener == sortedListeners[i]
             called == [acc EXCEPT !.invoked = Append(@, listener.uid)]
         IN  CASE listener.callback = "throws" ->
                    RunListeners(sortedListeners, i + 1,
                        [called EXCEPT !.listenersToRemove =
                            IF options.removeOnError THEN @ \cup {listener.uid} ELSE @],
                        options)
               [] listener.callback = "returnsFalse" /\ ~options.ignoreStopPropagation ->
                    called
               [] OTHER ->
                    RunListeners(sortedListeners, i + 1,
                        [called EXCEPT !.executedCount = @ + 1,
                                       !.listenersToRemove =
                                           IF listener.once THEN @ \cup {listener.uid} ELSE @],
                        options)

emit(ev, eventName, options) ==
    IF eventName \notin DOMAIN ev THEN [events |-> ev, ret |-> FALSE, invoked |-> <<>>]
    ELSE IF ev[eventName] = <<>> THEN [events |-> ev, ret |-> FALSE, invoked |-> <<>>]
    ELSE LET r == RunListeners(SortByPriority(ev[eventName]), 1,
                      [executedCount |-> 0, listenersToRemove |-> {}, invoked |-> <<>>],
                      options)
         IN  [events |-> [ev EXCEPT ![eventName] =
                             SelectSeq(@, LAMBDA l : l.uid \notin r.listenersToRemove)],
              ret |-> r.executedCount > 0,
              invoked |-> r.invoked]

\* emit with callbacks that call the bus.  emit is synchronous: what a
\* callback does to the bus happens inside the loop.  us holds the functions
\* the registrations returned, depth counts the emits this one is nested in;
\* an "emits" callback emits while depth is below MaxDepth.  dispatches lists,
\* for this emit and the emits nested in it, the uids registered when it
\* started, in priority order, and the uids it called

MaxDepth == 1

Uids(listeners) == [i \in 1..Len(listeners) |-> listeners[i].uid]

\* the unsubscribe functions of every registration but self, called in turn
RECURSIVE OffOthers(_, _, _, _)
OffOthers(ev, us, self, k) ==
    IF k > Len(us) THEN ev
    ELSE OffOthers(IF k = self THEN ev ELSE off(ev, us[k].eventName, us[k].id).events,
                   us, self, k + 1)

\* the loop following the listeners of the Set as they are now
FollowSet(sortedListeners, listeners) == SortByPriority(listeners)

\* for (const listener of sortedListeners): the array made by Array.from is
\* a copy, what happens to the Set afterwards does not reach it
ArrayFrom(sortedListeners, listeners) == sortedListeners

RECURSIVE Dispatch(_, _, _, _, _, _)
RECURSIVE emitFrom(_, _, _, _, _)

Dispatch(sortedListeners, i, acc, options, eventName, depth) ==
    IF i > Len(sortedListeners) THEN acc
    ELSE LET listener == sortedListeners[i]
             called == [acc EXCEPT !.invoked = Append(@, listener.uid)]
             after ==
                 CASE listener.callback = "registers" ->
                        LET r == on(called.events, eventName, "returns",
                                    ListenerOptions(FALSE, 0, NoListenerId),
                                    Len(called.unsubs) + 1)
                        IN  [called EXCEPT !.events = r.events,
                                           !.unsubs = Append(@, r.unsub)]
                   [] listener.callback = "unregisters" ->
                        [called EXCEPT !.events =
                            OffOthers(called.events, called.unsubs, listener.uid, 1)]
                   [] listener.callback = "emits" /\ depth < MaxDepth ->
                        LET r == emitFrom(called.events, called.unsubs, eventName, options,
                                          depth + 1)
                        IN  [called EXCEPT !.events = r.events, !.unsubs = r.unsubs,
                                           !.dispatches = @ \o r.dispatches]
                   [] OTHER -> called
             rest == ArrayFrom(sortedListeners, after.events[eventName])
         IN  CASE listener.callback = "throws" ->
                    Dispatch(rest, i + 1,
                        [after EXCEPT !.listenersToRemove =
                            IF options.removeOnError THEN @ \cup {listener.uid} ELSE @],
                        options, eventName, depth)
               [] listener.callback = "returnsFalse" /\ ~options.ignoreStopPropagation ->
                    after
               [] OTHER ->
                    Dispatch(rest, i + 1,
                        [after EXCEPT !.executedCount = @ + 1,
                                      !.listenersToRemove =
                                          IF listener.once THEN @ \cup {listener.uid} ELSE @],
                        options, eventName, depth)

emitFrom(ev, us, eventName, options, depth) ==
    IF ev[eventName] = <<>>
    THEN [events |-> ev, unsubs |-> us, ret |-> FALSE, dispatches |-> <<>>]
    ELSE LET sortedListeners == SortByPriority(ev[eventName])
             r == Dispatch(sortedListeners, 1,
                      [events |-> ev, unsubs |-> us, executedCount |-> 0,
                       listenersToRemove |-> {}, invoked |-> <<>>, dispatches |-> <<>>],
                      options, eventName, depth)
         IN  [events |-> [r.events EXCEPT ![eventName] =
                             SelectSeq(@, LAMBDA l : l.uid \notin r.listenersToRemove)],
              unsubs |-> r.unsubs,
              ret |-> r.executedCount > 0,
              dispatches |-> <<[depth |-> depth, registered |-> Uids(sortedListeners),
                                invoked |-> r.invoked]>> \o r.dispatches]

\* the last call on the bus: its arguments, its result, the map before it
EbCall(op) ==
    [op |-> op, eventName |-> "", ret |-> FALSE, invoked |-> <<>>, uid |-> 0,
     options |-> EmitOptions(FALSE, FALSE), before |-> NoListeners, dispatches |-> <<>>]

EBIdle ==
    /\ events = NoListeners
    /\ unsubs = <<>>
    /\ ebLast = EbCall("init")

-----------------------------------------------------------------------------
(* SmartAutoSave.  sas holds config and state, sasTimers the due time of    *)
(* each pending timer (NoTimer when none is pending: a timer that has fired *)
(* is no longer pending, and clearTimeout of its id does nothing).          *)
(* clearTimeout also cancels a setInterval timer: the two share their ids.  *)
(* An operator takes and returns z = [state, timers].                       *)

baseInterval == 30000
inactiveInterval == 120000
inactivityThreshold == 60000
debounceDelay == 5000
ActivityCheckPeriod == 10000
SaveTimeout == 10000
NoTimer == 0 - 1

\* what the page provides: the two optional callbacks of the config,
\* window.asyncErrorHandler and window.dataManager
SasConfig(hasChangesCallback, saveCallback, asyncErrorHandler, dataManager) ==
    [hasChangesCallback |-> hasChangesCallback, saveCallback |-> saveCallback,
     asyncErrorHandler |-> asyncErrorHandler, dataManager |-> dataManager]

clearTimer(z, timerName) == [z EXCEPT !.timers[timerName] = NoTimer]

clearTimers(z) == clearTimer(clearTimer(clearTimer(z, "autoSave"), "debounce"), "activityCheck")

\* scheduleNextSave without its isActive test
ScheduleWhenStopped(z, t) ==
    [clearTimer(z, "autoSave") EXCEPT !.timers.autoSave = t + z.state.currentInterval]

scheduleNextSave(z, t) ==
    IF ~z.state.isActive THEN z
    ELSE [clearTimer(z, "autoSave") EXCEPT !.timers.autoSave = t + z.state.currentInterval]

start(z, t) ==
    IF z.state.isActive THEN z
    ELSE scheduleNextSave([z EXCEPT !.state.isActive = TRUE], t)

stop(z) ==
    IF ~z.state.isActive THEN z
    ELSE clearTimers([z EXCEPT !.state.isActive = FALSE])

restart(z, t) == start(stop(z), t)

adjustSaveInterval(z, t) ==
    LET newInterval == IF z.state.isUserActive THEN baseInterval ELSE inactiveInterval
    IN  IF newInterval # z.state.currentInterval
        THEN LET z1 == [z EXCEPT !.state.currentInterval = newInterval]
             IN  IF z1.state.isActive THEN restart(z1, t) ELSE z1
        ELSE z

updateActivity(z, t) ==
    LET wasInactive == ~z.state.isUserActive
        z1 == [z EXCEPT !.state.lastActivity = t, !.state.isUserActive = TRUE]
    IN  IF wasInactive THEN adjustSaveInterval(z1, t) ELSE z1

checkInactivity(z, t) ==
    LET timeSinceActivity == t - z.state.lastActivity
        wasActive == z.state.isUserActive
        z1 == [z EXCEPT !.state.isUserActive = timeSinceActivity < inactivityThreshold]
    IN  IF wasActive /\ ~z1.state.isUserActive THEN adjustSaveInterval(z1, t) ELSE z1

\* the default predicate compares the fingerprint (a number printed as text)
\* with the text stored under lastAutoSaveHash; answer is what a
\* caller-supplied predicate returns
hasChanges(config, answer, s, t) ==
    IF config.hasChangesCallback THEN answer
    ELSE IF config.dataManager
         THEN LET currentHash == ToString(generateDataHash(s, t))
                  lastHash == LsGetItem(s.ls, "lastAutoSaveHash")
              IN  IF lastHash = Null THEN TRUE ELSE currentHash # lastHash.v
         ELSE TRUE

\* which of saveCallback, dataManager.autoSave or nothing callSaveCallback calls
SaveCallee(config) ==
    IF config.saveCallback THEN "saveCallback"
    ELSE IF config.dataManager THEN "dataManager.autoSave"
    ELSE "none"

\* the branch performSave takes once the predicate has answered
PerformSaveBranch(z, changes, t) ==
    IF ~z.state.isActive THEN "inactive"
    ELSE IF ~changes THEN "skip"
    ELSE IF t - z.state.lastActivity < debounceDelay /\ z.state.isUserActive THEN "debounce"
    ELSE "execute"

\* performSave up to the call of executeSave
performSave(z, changes, t) ==
    LET branch == PerformSaveBranch(z, changes, t)
    IN  CASE branch = "skip" -> scheduleNextSave(z, t)
          [] branch = "debounce" ->
               [clearTimer(z, "debounce") EXCEPT !.timers.debounce = t + debounceDelay]
          [] OTHER -> z

\* executeSave once the awaited result is there: result is "saved" (anything
\* but false), "false", or "error" (a rejection: the callback threw, the
\* timeout passed, or window.asyncErrorHandler is undefined)
executeSaveSettled(z, result, t) ==
    LET z1 == IF result = "saved"
              THEN [z EXCEPT !.state.lastSave = t, !.state.saveCount = @ + 1]
              ELSE z
    IN  scheduleNextSave([z1 EXCEPT !.state.executing = NoTimer], t)

\* this.state, and executing: the time executeSave began to await the save
\* callback, NoTimer when no executeSave is in flight
SasState(isActive, t, currentInterval) ==
    [isActive |-> isActive, lastActivity |-> t, lastSave |-> t, pendingSave |-> FALSE,
     saveCount |-> 0, isUserActive |-> TRUE, currentInterval |-> currentInterval,
     executing |-> NoTimer]

NoTimers == [autoSave |-> NoTimer, debounce |-> NoTimer, activityCheck |-> NoTimer]

\* new SmartAutoSave(): setupInactivityCheck() then start()
initialize(t) ==
    start([state |-> SasState(FALSE, t, baseInterval),
           timers |-> [NoTimers EXCEPT !.activityCheck = t + ActivityCheckPeriod]], t)

\* the last step of the scheduler: what ran, the branch taken or the result,
\* what callSaveCallback called, and when
SasCall(op, outcome, t) == [op |-> op, outcome |-> outcome, callee |-> "none", at |-> t]

\* no scheduler on the page
SASIdle ==
    /\ sas = Null
    /\ sasTimers = Null
    /\ sasLast = Null

\* no CloudSync on the page
CSIdle ==
    /\ cs = Null
    /\ net = <<>>
    /\ remote = Null
    /\ csLast = Null

\* the bus, the scheduler and the synchroniser are not part of a specification
OutsideIdle == EBIdle /\ SASIdle /\ CSIdle

-----------------------------------------------------------------------------
(* SafeStorage exercised alone: the instance under test (store) and a       *)
(* reference instance over a working localStorage run the same calls        *)

SSKeys == {"teste", "outra"}
SSKeyInputs == SSKeys \cup {""}
SSValues == {JsString(RawStr("valor")), JsString(RawStr("")), JsNumber(7)}
SSDefaults == {"null", "d"}
DefaultOf(d) == IF d = "null" THEN Null ELSE RawStr(d)

EmptyMap == [k \in SSKeys |-> Null]

\* the DataManager is not part of this specification
DMIdle ==
    /\ lastDataHash = Null
    /\ now = 0
    /\ timers = <<>>
    /\ file = Null
    /\ committed = Null
    /\ burst = Null
    /\ dmLast = Null

SSInit ==
    /\ DMIdle
    /\ OutsideIdle
    /\ \E avail \in BOOLEAN :
          store = [isAvailable |-> avail, ls |-> EmptyMap, fallbackData |-> EmptyMap]
    /\ ssRef = [isAvailable |-> TRUE, ls |-> EmptyMap, fallbackData |-> EmptyMap]
    /\ ssLast = [op |-> "init", key |-> "", val |-> JsString(RawStr("")), def |-> "null",
                 ret |-> Null, refRet |-> Null]

SSGetItem ==
    \E key \in SSKeyInputs, d \in SSDefaults :
        /\ ssLast' = [op |-> "getItem", key |-> key, val |-> JsString(RawStr("")), def |-> d,
                      ret |-> getItem(store, key, DefaultOf(d)),
                      refRet |-> getItem(ssRef, key, DefaultOf(d))]
        /\ UNCHANGED <<store, ssRef>>
        /\ UNCHANGED <<dmVars, outsideVars>>

SSSetItem ==
    \E key \in SSKeyInputs, value \in SSValues, quota \in BOOLEAN :
        LET r == setItem(store, key, value, quota /\ store.isAvailable)
            q == setItem(ssRef, key, value, FALSE)
        IN  /\ store' = r.s
            /\ ssRef' = q.s
            /\ ssLast' = [op |-> "setItem", key |-> key, val |-> value, def |-> "null",
                          ret |-> r.ret, refRet |-> q.ret]
            /\ UNCHANGED <<dmVars, outsideVars>>

SSRemoveItem ==
    \E key \in SSKeyInputs :
        LET r == removeItem(store, key)
            q == removeItem(ssRef, key)
        IN  /\ store' = r.s
            /\ ssRef' = q.s
            /\ ssLast' = [op |-> "removeItem", key |-> key, val |-> JsString(RawStr("")),
                          def |-> "null", ret |-> r.ret, refRet |-> q.ret]
            /\ UNCHANGED <<dmVars, outsideVars>>

SSHasItem ==
    \E key \in SSKeyInputs :
        /\ ssLast' = [op |-> "hasItem", key |-> key, val |-> JsString(RawStr("")), def |-> "null",
                      ret |-> hasItem(store, key), refRet |-> hasItem(ssRef, key)]
        /\ UNCHANGED <<store, ssRef>>
        /\ UNCHANGED <<dmVars, outsideVars>>

SSNext == SSGetItem \/ SSSetItem \/ SSRemoveItem \/ SSHasItem

SpecSS == SSInit /\ [][SSNext]_vars

\* C9: whenever setItem(k, v) has just returned true, getItem(k) returns
\* String(v), and whenever removeItem(k) has just returned true, getItem(k)
\* returns the default null: in every store condition.
C9_SetThenGet ==
    /\ (ssLast.op = "setItem" /\ ssLast.ret = TRUE)
          => getItem(store, ssLast.key, Null) = String(ssLast.val)
    /\ (ssLast.op = "removeItem" /\ ssLast.ret = TRUE)
          => getItem(store, ssLast.key, Null) = Null

\* C10: with the persistent store unavailable at construction, every call
\* of getItem, setItem, removeItem and hasItem returns what the same call
\* returns, after the same calls, on a SafeStorage whose store is available.
C10_SameAsAvailable ==
    (~store.isAvailable) => ssLast.ret = ssLast.refRet

-----------------------------------------------------------------------------
(* The repository: DataManager over a localStorage that is available and    *)
(* accepts every write                                                      *)

MaxLen == 2        \* add* is called while the list is shorter than this
MaxTimers == 3     \* pending deferred autoSave calls
MaxTicks == 2      \* steps of the clock
MaxSnapshots == 2  \* autoSave is called while the page has made fewer snapshots

DMKeys ==
    {"expensesData", "incomeData", "cards", "income-categories", "expense-categories",
     "achievements", "monthlyExpenseGoal", "appData", "autoSaveHistory", "lastAutoSave",
     "lastAutoSaveHash"}

ListInputs == {<<>>, <<2>>}
CategoryInputs == {<<1>>, <<1, 2>>}
RecordInputs == {NoId, 1}
MintedIds == {2}
TickSteps == {1, AUTO_SAVE_DELAY}

\* what a browser holds before the page loads: nothing, or the bundle an
\* earlier session saved
EmptyStorage == [k \in DMKeys |-> Null]
EarlierBundle ==
    Bundle(JList(<<1>>), JList(<<>>), JList(<<1>>), JList(<<1>>), JList(<<1>>),
           JList(<<1>>), RawStr("500"), "0", "", Some(0), CURRENT_DATA_VERSION)
PreExisting(p) ==
    IF p = "fresh" THEN EmptyStorage
    ELSE [EmptyStorage EXCEPT !["appData"] = JsonText(EarlierBundle),
                               !["monthlyExpenseGoal"] = RawStr("500")]

\* the files a user can select
FileNames == {"none", "malformed", "notalist", "nocards", "minimal", "full", "exported"}
FileText(name) ==
    CASE name = "none" -> Null
      [] name = "malformed" -> RawStr("{invalido}")
      [] name = "notalist" ->
           JsonText([EmptyObject EXCEPT !.expensesData = JNotAList,
                                        !.incomeData = JList(<<>>),
                                        !.cards = JList(<<>>)])
      [] name = "nocards" ->
           JsonText([EmptyObject EXCEPT !.expensesData = JList(<<1>>),
                                        !.incomeData = JList(<<>>)])
      [] name = "minimal" ->
           JsonText([EmptyObject EXCEPT !.expensesData = JList(<<>>),
                                        !.incomeData = JList(<<2>>),
                                        !.cards = JList(<<>>)])
      [] name = "full" ->
           JsonText(Bundle(JList(<<2>>), JList(<<1>>), JList(<<2>>), JList(<<2>>),
                           JList(<<2>>), JList(<<2>>), RawStr("800"), "", "0", Null,
                           CURRENT_DATA_VERSION))
      [] OTHER -> file.text

\* imported names the file whose import succeeded, while nothing but
\* snapshots has happened since
Call(op, emitted) ==
    [op |-> op, ok |-> TRUE, id |-> 0, input |-> "", saved |-> FALSE, events |-> emitted,
     imported |-> ""]

NoBurst == [k |-> 0, added |-> 0, open |-> FALSE]

\* a mutating call joins the burst while the first deferred call of the burst
\* is not yet due (so every call of a burst is within the delay of the first)
BurstAfterMutation ==
    IF timers = <<>> THEN [k |-> 1, added |-> 0, open |-> TRUE]
    ELSE IF burst.open /\ now < Head(timers) THEN [burst EXCEPT !.k = @ + 1]
    ELSE NoBurst

\* the repository after the page has loaded
DMLoaded ==
    /\ \E p \in {"fresh", "returning"} :
          store = loadInitialData([isAvailable |-> TRUE, ls |-> PreExisting(p),
                                   fallbackData |-> EmptyStorage])
    /\ ssRef = Null
    /\ ssLast = Null
    /\ lastDataHash = Null
    /\ now = 0
    /\ timers = <<>>
    /\ file = [text |-> Null, from |-> Collections(store)]
    /\ committed = getAllData(store)
    /\ burst = NoBurst
    /\ dmLast = Call("init", <<>>)

DMInit == DMLoaded /\ OutsideIdle

Mutation(op, s, c) ==
    /\ Len(timers) < MaxTimers
    /\ store' = s
    /\ timers' = notifyDataChange(timers, now)
    /\ committed' = c
    /\ burst' = BurstAfterMutation
    /\ dmLast' = Call(op, NotifyEvents)
    /\ UNCHANGED <<ssRef, ssLast, outsideVars, lastDataHash, now, file>>

SaveExpenses ==
    \E l \in ListInputs :
        Mutation("saveExpenses", saveExpenses(store, l), [committed EXCEPT !.expensesData = l])

SaveIncomes ==
    \E l \in ListInputs :
        Mutation("saveIncomes", saveIncomes(store, l), [committed EXCEPT !.incomeData = l])

SaveCards ==
    \E l \in ListInputs :
        Mutation("saveCards", saveCards(store, l), [committed EXCEPT !.cards = l])

AddExpense ==
    \E r \in RecordInputs, m \in MintedIds :
        /\ Len(getExpenses(store)) < MaxLen
        /\ Mutation("addExpense", addExpense(store, r, m),
                    [committed EXCEPT !.expensesData = Append(@, WithId(r, m))])

AddIncome ==
    \E r \in RecordInputs, m \in MintedIds :
        /\ Len(getIncomes(store)) < MaxLen
        /\ Mutation("addIncome", addIncome(store, r, m),
                    [committed EXCEPT !.incomeData = Append(@, WithId(r, m))])

AddCard ==
    \E r \in RecordInputs, m \in MintedIds :
        /\ Len(getCards(store)) < MaxLen
        /\ Mutation("addCard", addCard(store, r, m),
                    [committed EXCEPT !.cards = Append(@, WithId(r, m))])

SaveExpenseCategories ==
    \E l \in CategoryInputs :
        Mutation("saveExpenseCategories", saveExpenseCategories(store, l), committed)

SaveIncomeCategories ==
    \E l \in CategoryInputs :
        Mutation("saveIncomeCategories", saveIncomeCategories(store, l), committed)

TickBy(steps) ==
    \E d \in steps :
        /\ (now % AUTO_SAVE_DELAY) + (now \div AUTO_SAVE_DELAY) < MaxTicks
        /\ now' = now + d
        /\ UNCHANGED <<store, ssRef, ssLast, outsideVars, lastDataHash, timers, file,
                       committed, burst, dmLast>>

Tick == TickBy(TickSteps)

\* the clock moving by the delay of the deferred autoSave
TickDelay == TickBy({AUTO_SAVE_DELAY})

\* the versions saved since the page loaded (now counts from the page load,
\* the versions of earlier sessions have ids before it)
SessionVersions(s) ==
    Cardinality({i \in 1..Len(getAutoSaveVersions(s)) : getAutoSaveVersions(s)[i].id >= 0})

RunAutoSave ==
    LET r == autoSave(store, lastDataHash, now)
    IN  /\ store' = r.s
        /\ lastDataHash' = r.lastDataHash
        /\ dmLast' = [Call("autoSave", r.events) EXCEPT !.saved = r.saved,
                                                       !.imported = dmLast.imported]
        /\ UNCHANGED <<ssRef, ssLast, outsideVars, now, timers, file, committed, burst>>

\* autoSave called by the 'data:save:request' listener or by the scheduler
AutoSaveCall ==
    /\ SessionVersions(store) < MaxSnapshots
    /\ RunAutoSave

\* the deferred autoSave of notifyDataChange, once its delay has passed
TimerFire ==
    /\ timers # <<>>
    /\ Head(timers) <= now
    /\ SessionVersions(store) < MaxSnapshots
    /\ LET r == autoSave(store, lastDataHash, now)
       IN  /\ store' = r.s
           /\ lastDataHash' = r.lastDataHash
           /\ burst' = [burst EXCEPT !.open = FALSE,
                                     !.added = IF r.saved THEN @ + 1 ELSE @]
           /\ dmLast' = [Call("autoSave", r.events) EXCEPT !.saved = r.saved,
                                                       !.imported = dmLast.imported]
    /\ timers' = Tail(timers)
    /\ UNCHANGED <<ssRef, ssLast, outsideVars, now, file, committed>>

VersionIds(s) == {getAutoSaveVersions(s)[i].id : i \in 1..Len(getAutoSaveVersions(s))}

RestoreAutoSaveVersion ==
    \E versionId \in VersionIds(store) \cup {999} :
        LET r == restoreAutoSaveVersion(store, versionId)
        IN  /\ store' = r.s
            /\ committed' = getAllData(r.s)
            /\ dmLast' = [Call("restoreAutoSaveVersion", <<>>) EXCEPT
                              !.ok = r.ret, !.id = versionId]
            /\ UNCHANGED <<ssRef, ssLast, outsideVars, lastDataHash, now, timers, file, burst>>

ClearAutoSaveHistory ==
    /\ store' = clearAutoSaveHistory(store)
    /\ dmLast' = Call("clearAutoSaveHistory", <<>>)
    /\ UNCHANGED <<ssRef, ssLast, outsideVars, lastDataHash, now, timers, file, committed, burst>>

SaveToFile ==
    /\ file' = [text |-> saveToFile(store, now), from |-> Collections(store)]
    /\ dmLast' = Call("saveToFile", <<>>)
    /\ UNCHANGED <<store, ssRef, ssLast, outsideVars, lastDataHash, now, timers, committed, burst>>

\* restore of the newest version, of the oldest, or of an id that is not there
RestoreNewestOrOldest ==
    \E versionId \in {getAutoSaveVersions(store)[i].id :
                          i \in {1, Len(getAutoSaveVersions(store))}
                                 \cap DOMAIN getAutoSaveVersions(store)} \cup {999} :
        LET r == restoreAutoSaveVersion(store, versionId)
        IN  /\ store' = r.s
            /\ committed' = getAllData(r.s)
            /\ dmLast' = [Call("restoreAutoSaveVersion", <<>>) EXCEPT
                              !.ok = r.ret, !.id = versionId]
            /\ UNCHANGED <<ssRef, ssLast, outsideVars, lastDataHash, now, timers, file, burst>>

LoadFile(names) ==
    \E name \in names :
        LET r == loadFromFileInput(store, FileText(name))
        IN  /\ store' = r.s
            /\ committed' = getAllData(r.s)
            /\ dmLast' = [Call("loadFromFileInput", <<>>) EXCEPT
                              !.ok = r.ret, !.input = name,
                              !.imported = IF r.ret THEN name ELSE ""]
            /\ UNCHANGED <<ssRef, ssLast, outsideVars, lastDataHash, now, timers, file, burst>>

LoadFromFileInput == LoadFile(FileNames)

\* the import of a complete backup
LoadBackup == LoadFile({"full"})

-----------------------------------------------------------------------------
(* Specifications *)

\* the mutating calls alone
NextMut ==
    \/ SaveExpenses \/ SaveIncomes \/ SaveCards
    \/ AddExpense \/ AddIncome \/ AddCard
    \/ SaveExpenseCategories \/ SaveIncomeCategories

SpecMut == DMInit /\ [][NextMut]_vars

\* restore: snapshots, an import, a mutation, restore and clear
NextRestore ==
    \/ SaveExpenses \/ LoadBackup \/ AutoSaveCall
    \/ RestoreAutoSaveVersion \/ ClearAutoSaveHistory

SpecRestore == DMInit /\ [][NextRestore]_vars

\* mutations, their deferred autoSave and the direct autoSave, in time
NextTimer == SaveExpenses \/ Tick \/ AutoSaveCall \/ TimerFire

SpecTimer == DMInit /\ [][NextTimer]_vars

\* export and import
NextIO == SaveExpenses \/ SaveIncomeCategories \/ SaveToFile \/ LoadFromFileInput

SpecIO == DMInit /\ [][NextIO]_vars

\* the history an earlier session left: n versions, newest first
PreHistory(n) ==
    [i \in 1..n |-> [id |-> 0 - i, timestamp |-> ToString(0 - i), data |-> EarlierBundle,
                     hash |-> Some(0)]]

HistInit ==
    /\ \E n \in {maxAutoSaveVersions - 1, maxAutoSaveVersions} :
          store = loadInitialData(
                      [isAvailable |-> TRUE,
                       ls |-> [PreExisting("returning") EXCEPT
                                  !["autoSaveHistory"] = JsonText(PreHistory(n))],
                       fallbackData |-> EmptyStorage])
    /\ OutsideIdle
    /\ ssRef = Null
    /\ ssLast = Null
    /\ lastDataHash = Null
    /\ now = 0
    /\ timers = <<>>
    /\ file = [text |-> Null, from |-> Collections(store)]
    /\ committed = getAllData(store)
    /\ burst = NoBurst
    /\ dmLast = Call("init", <<>>)

\* the history: a page that starts with the history an earlier session left
NextHist ==
    \/ LoadBackup \/ Tick \/ AutoSaveCall
    \/ RestoreNewestOrOldest \/ ClearAutoSaveHistory

SpecHist == HistInit /\ [][NextHist]_vars

-----------------------------------------------------------------------------
(* Startup: the page loads over what the browser holds, which may be        *)
(* malformed or written by another release; the constructor runs            *)
(* loadInitialData, and every reload runs it again                          *)

\* the appData texts a browser can hold when the page loads
StoredNames == {"absent", "malformed", "unversioned", "current", "newer"}
StoredAppData(name) ==
    CASE name = "absent" -> Null
      [] name = "malformed" -> RawStr("{invalido}")
      [] name = "unversioned" -> JsonText([EarlierBundle EXCEPT !.version = ""])
      [] name = "current" -> JsonText(EarlierBundle)
      [] OTHER -> JsonText([EarlierBundle EXCEPT !.version = "3.0"])

\* the keys read through getJSON/getObject and the defaults the callers give
ReadDefaults(key) == IF key = "appData" THEN {Null} ELSE {<<>>, <<2>>}

StartupInit ==
    /\ \E name \in StoredNames, e \in {Null, RawStr("{invalido}"), JsonText(<<1>>)} :
          store = [isAvailable |-> TRUE,
                   ls |-> [EmptyStorage EXCEPT !["appData"] = StoredAppData(name),
                                               !["expensesData"] = e],
                   fallbackData |-> EmptyStorage]
    /\ OutsideIdle
    /\ ssRef = Null
    /\ ssLast = Null
    /\ lastDataHash = Null
    /\ now = 0
    /\ timers = <<>>
    /\ file = [text |-> Null, from |-> Collections(store)]
    /\ committed = getAllData(store)
    /\ burst = NoBurst
    /\ dmLast = Call("unloaded", <<>>)

Started == dmLast.op # "unloaded"

\* new DataManager(): the page loads or reloads
LoadInitialData ==
    /\ store' = loadInitialData(store)
    /\ lastDataHash' = Null
    /\ timers' = <<>>
    /\ committed' = getAllData(store')
    /\ burst' = NoBurst
    /\ dmLast' = Call("loadInitialData", <<>>)
    /\ UNCHANGED <<ssRef, ssLast, outsideVars, now, file>>

\* ok records that the call returned the default it was given
ReadJSON(op, key, defaultValue, ret) ==
    /\ dmLast' = [Call(op, <<>>) EXCEPT !.ok = (ret = defaultValue), !.input = key]
    /\ UNCHANGED <<store, ssRef, ssLast, outsideVars, lastDataHash, now, timers, file,
                   committed, burst>>

GetJSON ==
    \E key \in {"appData", "expensesData"} : \E defaultValue \in ReadDefaults(key) :
        ReadJSON("getJSON", key, defaultValue, getJSON(store, key, defaultValue))

GetObject ==
    \E key \in {"appData", "expensesData"} : \E defaultValue \in ReadDefaults(key) :
        ReadJSON("getObject", key, defaultValue, getObject(store, key, defaultValue))

StartedAutoSave == Started /\ AutoSaveCall
StartedImport == Started /\ LoadBackup
StartedRestore == Started /\ RestoreAutoSaveVersion

\* mutating calls of two kinds, their deferred snapshots and the clock
NextSettle == SaveExpenses \/ SaveIncomeCategories \/ TickDelay \/ TimerFire
SpecSettle == DMInit /\ [][NextSettle]_vars

\* an import, snapshots and the reload of the page
NextReload == SaveExpenses \/ LoadBackup \/ AutoSaveCall \/ LoadInitialData
SpecReload == DMInit /\ [][NextReload]_vars

NextStartup ==
    \/ LoadInitialData \/ GetJSON \/ GetObject
    \/ StartedAutoSave \/ StartedImport \/ StartedRestore

SpecStartup == StartupInit /\ [][NextStartup]_vars

-----------------------------------------------------------------------------
(* The event bus exercised alone *)

MaxRegistrations == 3   \* on/once calls made on the bus

Priorities == {0, 1}
CustomIds == {<<"meu-listener", 0>>}

\* the storage and the DataManager are not part of these specifications
StorageIdle ==
    /\ store = Null
    /\ ssRef = Null
    /\ ssLast = Null

busOutside == <<ssVars, dmVars, sasVars, csVars>>

BusInit ==
    /\ StorageIdle
    /\ DMIdle
    /\ SASIdle
    /\ CSIdle
    /\ EBIdle

\* on/once with the given choices of arguments; the wrapper made by the k-th
\* registration has uid k, and unsubs[k] is the function that call returned
Register(op, eventNames, callbacks, onces, ids) ==
    /\ Len(unsubs) < MaxRegistrations
    /\ \E eventName \in eventNames, callback \in callbacks, o \in onces,
          priority \in Priorities, id \in ids :
          LET uid == Len(unsubs) + 1
              options == ListenerOptions(o, priority, id)
              r == IF op = "once"
                   THEN once(events, eventName, callback, options, uid)
                   ELSE on(events, eventName, callback, options, uid)
          IN  /\ events' = r.events
              /\ unsubs' = Append(unsubs, r.unsub)
              /\ ebLast' = [EbCall(op) EXCEPT !.eventName = eventName, !.uid = uid,
                                              !.before = events]
    /\ UNCHANGED busOutside

\* handlers of every kind on one event, with generated ids
OnHandler == Register("on", {"data:updated"}, Callbacks, BOOLEAN, {NoListenerId})
OnceHandler == Register("once", {"data:updated"}, Callbacks, {FALSE}, {NoListenerId})

\* plain handlers on either event, with a generated id or the caller's id;
\* an empty event name or a callback that is no function registers nothing
OnWithId ==
    Register("on", EventNames \cup {""}, {"returns", "notAFunction"}, {FALSE},
             CustomIds \cup {NoListenerId})

\* calling the function a registration returned
Unsubscribe ==
    \E k \in 1..Len(unsubs) :
        LET r == off(events, unsubs[k].eventName, unsubs[k].id)
        IN  /\ events' = r.events
            /\ ebLast' = [EbCall("unsubscribe") EXCEPT !.eventName = unsubs[k].eventName,
                                                        !.ret = r.ret, !.uid = k,
                                                        !.before = events]
            /\ UNCHANGED <<unsubs, busOutside>>

Off ==
    \E eventName \in EventNames, listenerId \in CustomIds \cup {GeneratedId(1)} :
        LET r == off(events, eventName, listenerId)
        IN  /\ events' = r.events
            /\ ebLast' = [EbCall("off") EXCEPT !.eventName = eventName, !.ret = r.ret,
                                                !.before = events]
            /\ UNCHANGED <<unsubs, busOutside>>

EmitOn(eventNames) ==
    \E eventName \in eventNames, ignoreStopPropagation \in BOOLEAN, removeOnError \in BOOLEAN :
        LET options == EmitOptions(ignoreStopPropagation, removeOnError)
            r == emit(events, eventName, options)
        IN  /\ events' = r.events
            /\ ebLast' = [EbCall("emit") EXCEPT !.eventName = eventName, !.ret = r.ret,
                                                 !.invoked = r.invoked, !.options = options,
                                                 !.before = events]
            /\ UNCHANGED <<unsubs, busOutside>>

\* the event the handlers are registered on
Emit == EmitOn({"data:updated"})

NextEmit == OnHandler \/ OnceHandler \/ Emit
SpecEmit == BusInit /\ [][NextEmit]_vars

\* handlers that call the bus, and plain ones, on one event
OnBusHandler ==
    Register("on", {"data:updated"}, BusCallbacks \cup {"returns"}, BOOLEAN, {NoListenerId})

\* emit whose callbacks may register, unregister and emit
EmitNested ==
    /\ Len(unsubs) <= MaxRegistrations
    /\ LET eventName == "data:updated"
           options == EmitOptions(FALSE, FALSE)
           r == emitFrom(events, unsubs, eventName, options, 0)
       IN  /\ events' = r.events
           /\ unsubs' = r.unsubs
           /\ ebLast' = [EbCall("emit") EXCEPT !.eventName = eventName, !.ret = r.ret,
                                                !.options = options, !.before = events,
                                                !.dispatches = r.dispatches]
    /\ UNCHANGED busOutside

NextNested == OnBusHandler \/ EmitNested
SpecNested == BusInit /\ [][NextNested]_vars

NextUnsub == OnWithId \/ Unsubscribe \/ Off
SpecUnsub == BusInit /\ [][NextUnsub]_vars

-----------------------------------------------------------------------------
(* The scheduler.  Timers fire when they are due: the clock moves to the    *)
(* next due time, or by AdvanceStep when none is due sooner.  The debounced *)
(* DOM listeners are left out: activity reaches the scheduler through the   *)
(* visibilitychange listener, which calls updateActivity directly.          *)

MaxAdvances == 15     \* the clock stops at MaxAdvances * AdvanceStep
AdvanceStep == ActivityCheckPeriod

Z == [state |-> sas.state, timers |-> sasTimers]

SetZ(z) ==
    /\ sas' = [sas EXCEPT !.state = z.state]
    /\ sasTimers' = z.timers

Due(due) == due # NoTimer /\ due <= now

PendingTimes ==
    {sasTimers[k] : k \in {k \in DOMAIN sasTimers : sasTimers[k] # NoTimer}}
    \cup (IF sas.state.executing # NoTimer THEN {sas.state.executing + SaveTimeout} ELSE {})
    \cup (IF timers # <<>> THEN {Head(timers)} ELSE {})

AdvanceUntil(horizon) ==
    /\ now < horizon
    /\ \A due \in PendingTimes : due > now
    /\ now' = IF \E due \in PendingTimes : due < now + AdvanceStep
              THEN CHOOSE due \in PendingTimes : \A other \in PendingTimes : due <= other
              ELSE now + AdvanceStep
    /\ UNCHANGED <<ssVars, ebVars, sasVars, csVars, lastDataHash, timers, file, committed,
                   burst, dmLast>>

Advance == AdvanceUntil(MaxAdvances * AdvanceStep)

SasFrame == UNCHANGED <<ssVars, ebVars, dmVars, csVars>>

SchedInit(configs) ==
    /\ \E config \in configs : sas = [config |-> config, state |-> initialize(0).state]
    /\ sasTimers = initialize(0).timers
    /\ sasLast = SasCall("initialize", "", 0)
    /\ EBIdle
    /\ CSIdle

\* document.addEventListener('visibilitychange', ...) with the page visible
VisibilityChange ==
    /\ SetZ(updateActivity(Z, now))
    /\ sasLast' = SasCall("updateActivity", "", now)
    /\ SasFrame

\* the setInterval callback; the interval is re-armed unless the callback
\* cleared it
CheckInactivityTimer ==
    /\ Due(sasTimers.activityCheck)
    /\ SetZ(checkInactivity([Z EXCEPT !.timers.activityCheck = @ + ActivityCheckPeriod], now))
    /\ sasLast' = SasCall("checkInactivity", "", now)
    /\ SasFrame

SasStop ==
    /\ SetZ(stop(Z))
    /\ sasLast' = SasCall("stop", "", now)
    /\ SasFrame

SasStart ==
    /\ SetZ(start(Z, now))
    /\ sasLast' = SasCall("start", "", now)
    /\ SasFrame

\* executeSave from its start to its first await.  Without
\* window.asyncErrorHandler the call of withTimeout throws; with no callee the
\* result is false; dataManager.autoSave runs and returns at once; a
\* caller-supplied saveCallback is awaited
ExecuteSave(z, op) ==
    LET callee == IF sas.config.asyncErrorHandler THEN SaveCallee(sas.config) ELSE "none"
        last == [SasCall(op, "execute", now) EXCEPT !.callee = callee]
    IN  CASE ~sas.config.asyncErrorHandler ->
               /\ SetZ(executeSaveSettled(z, "error", now))
               /\ sasLast' = [last EXCEPT !.outcome = "error"]
               /\ SasFrame
          [] callee = "none" ->
               /\ SetZ(executeSaveSettled(z, "false", now))
               /\ sasLast' = [last EXCEPT !.outcome = "false"]
               /\ SasFrame
          [] callee = "dataManager.autoSave" ->
               LET r == autoSave(store, lastDataHash, now)
               IN  /\ SessionVersions(store) < MaxSnapshots
                   /\ store' = r.s
                   /\ lastDataHash' = r.lastDataHash
                   /\ dmLast' = [Call("autoSave", r.events) EXCEPT !.saved = r.saved,
                                                       !.imported = dmLast.imported]
                   /\ SetZ(executeSaveSettled(z, "saved", now))
                   /\ sasLast' = [last EXCEPT !.outcome = "saved"]
                   /\ UNCHANGED <<ssRef, ssLast, ebVars, csVars, now, timers, file, committed, burst>>
          [] OTHER ->
               /\ SetZ([z EXCEPT !.state.executing = now])
               /\ sasLast' = [last EXCEPT !.outcome = "awaiting"]
               /\ SasFrame

\* the setTimeout callback of scheduleNextSave: performSave.  A
\* caller-supplied predicate answers true or false, or throws
AutoSaveTimer ==
    /\ Due(sasTimers.autoSave)
    /\ \E answer \in IF sas.config.hasChangesCallback THEN {"true", "false", "throws"}
                     ELSE {"true"} :
          LET fired == [Z EXCEPT !.timers.autoSave = NoTimer]
              changes == hasChanges(sas.config, answer = "true", store, now)
              branch == PerformSaveBranch(fired, changes, now)
          IN  IF answer = "throws" /\ fired.state.isActive
              THEN /\ SetZ(fired)
                   /\ sasLast' = SasCall("performSave", "throws", now)
                   /\ SasFrame
              ELSE IF branch = "execute"
              THEN ExecuteSave(performSave(fired, changes, now), "performSave")
              ELSE /\ SetZ(performSave(fired, changes, now))
                   /\ sasLast' = SasCall("performSave", branch, now)
                   /\ SasFrame

DebounceTimer ==
    /\ Due(sasTimers.debounce)
    /\ ExecuteSave([Z EXCEPT !.timers.debounce = NoTimer], "debounce")

MaxSaves == 2   \* forceSave is called while fewer saves have succeeded

\* forceSave while no executeSave is in flight
ForceSave ==
    /\ sas.state.executing = NoTimer
    /\ sas.state.saveCount < MaxSaves
    /\ ExecuteSave(clearTimer(Z, "debounce"), "forceSave")

\* the awaited saveCallback settles, or withTimeout rejects after SaveTimeout
SaveSettles ==
    /\ sas.state.executing # NoTimer
    /\ \E result \in {"saved", "false", "error"} :
          /\ now - sas.state.executing >= SaveTimeout => result = "error"
          /\ SetZ(executeSaveSettled(Z, result, now))
          /\ sasLast' = [SasCall("executeSave", result, now) EXCEPT !.callee = "saveCallback"]
    /\ SasFrame

\* the scheduler alone: both callbacks supplied by the caller or neither,
\* with or without window.asyncErrorHandler, and no window.dataManager
AloneConfigs ==
    {SasConfig(c, c, h, FALSE) : c \in BOOLEAN, h \in BOOLEAN}

SchedAloneInit ==
    /\ StorageIdle
    /\ DMIdle
    /\ SchedInit(AloneConfigs)

\* the scheduler of the page: no callbacks in its config, window.dataManager
\* set, with or without window.asyncErrorHandler
PageConfigs ==
    {SasConfig(FALSE, FALSE, h, TRUE) : h \in BOOLEAN}

PageInit ==
    /\ DMLoaded
    /\ SchedInit(PageConfigs)

NextPage ==
    \/ SaveExpenses \/ TimerFire \/ Advance \/ CheckInactivityTimer \/ AutoSaveTimer
SpecPage == PageInit /\ [][NextPage]_vars

\* the scheduler stopped, started and forced by its owner, with both
\* callbacks supplied and window.asyncErrorHandler set
MaxStopAdvances == 7   \* the clock of SpecStop stops at MaxStopAdvances * AdvanceStep

AdvanceShort == AdvanceUntil(MaxStopAdvances * AdvanceStep)

StopInit ==
    /\ StorageIdle
    /\ DMIdle
    /\ SchedInit({SasConfig(TRUE, TRUE, TRUE, FALSE)})

NextStop ==
    \/ AdvanceShort \/ VisibilityChange \/ CheckInactivityTimer
    \/ AutoSaveTimer \/ DebounceTimer \/ SaveSettles
    \/ SasStop \/ SasStart \/ ForceSave
SpecStop == StopInit /\ [][NextStop]_vars

NextIdle ==
    \/ Advance \/ VisibilityChange \/ CheckInactivityTimer
    \/ AutoSaveTimer \/ DebounceTimer \/ SaveSettles
SpecIdle == SchedAloneInit /\ [][NextIdle]_vars

-----------------------------------------------------------------------------
(* CloudSync.  A pullData or pushData call runs to its first await, is      *)
(* suspended while the token and the request are outstanding, and resumes   *)
(* with their outcome; net holds the suspended calls, which may resume in   *)
(* any order.  Two releases are modelled: in the first pullData does not    *)
(* take the syncInProgress flag, in the second it does.  The deferred       *)
(* autoSave calls that the mutations schedule stay pending: the steps below *)
(* happen within their delay.                                               *)

Releases == {"part_002", "part_003"}

CloudSync(release) ==
    [isAuthenticated |-> TRUE, syncInProgress |-> FALSE, status |-> "offline",
     guardsPull |-> release = "part_003"]

\* the last CloudSync step: during says whether a push was suspended when a
\* pushData call was made, sent whether that call issued a request, before
\* holds the collections as they were when a suspended call resumed
Sync(op) ==
    [op |-> op, outcome |-> "", during |-> FALSE, sent |-> FALSE,
     before |-> Null, data |-> Null]

Request(kind, body, holdsGuard) == [kind |-> kind, body |-> body, holdsGuard |-> holdsGuard]

Pushes(nt) == {i \in 1..Len(nt) : nt[i].kind = "push"}
Pulls(nt) == {i \in 1..Len(nt) : nt[i].kind = "pull"}

\* what await fetch(...) can come to: a 2xx response, another response, a
\* rejected fetch, a rejected getToken()
Outcomes == {"ok", "non2xx", "network", "auth"}
Rejections == {"network", "auth"}

updateUIStatus(c, status) == [c EXCEPT !.status = status]

\* the body of the POST: getAllData() and the two category lists
PushBody(s) ==
    [expensesData |-> getExpenses(s), incomeData |-> getIncomes(s), cards |-> getCards(s),
     categories |-> [expense |-> getExpenseCategories(s),
                     income |-> getIncomeCategories(s)]]

\* pushData leaves at once without the flag test
AuthOnlyGuard(c) == ~c.isAuthenticated

\* if (!this.isAuthenticated || this.syncInProgress) return;
InFlightGuard(c) == ~c.isAuthenticated \/ c.syncInProgress

\* pushData up to its await: the flag is taken and the body is built from
\* the collections as they are now
pushData(c, nt, s) ==
    IF InFlightGuard(c) THEN [cs |-> c, net |-> nt, sent |-> FALSE]
    ELSE [cs |-> updateUIStatus([c EXCEPT !.syncInProgress = TRUE], "syncing"),
          net |-> Append(nt, Request("push", Some(PushBody(s)), TRUE)),
          sent |-> TRUE]

\* pushData from its await on: the response is not looked at, a rejection
\* is caught, and the flag is released in every case
pushDataSettled(c, outcome) ==
    [updateUIStatus(c, IF outcome \in Rejections THEN "error" ELSE "online")
        EXCEPT !.syncInProgress = FALSE]

\* the listener of data:updated registered at login
DataUpdated(c, nt, s) == pushData(c, nt, s)

\* pullData up to its await
pullData(c, nt) ==
    IF ~c.isAuthenticated \/ (c.guardsPull /\ c.syncInProgress)
    THEN [cs |-> c, net |-> nt, sent |-> FALSE]
    ELSE [cs |-> updateUIStatus([c EXCEPT !.syncInProgress = c.guardsPull \/ @], "syncing"),
          net |-> Append(nt, Request("pull", Null, c.guardsPull)),
          sent |-> TRUE]

\* the bodies a GET can answer with: expenses missing, empty, or not empty
PullResponse(expenses, incomes) == [expenses |-> expenses, incomes |-> incomes, cards |-> JList(<<>>)]
PullResponses ==
    {PullResponse(JUndefined, JList(<<1>>)), PullResponse(JList(<<>>), JList(<<1>>)),
     PullResponse(JList(<<1>>), JList(<<1>>)), PullResponse(JList(<<1, 2>>), JList(<<>>))}

\* data.expenses without the length test
HasExpensesField(data) == IsArray(data.expenses)

\* data.expenses && data.expenses.length > 0
HasExpenses(data) == IsArray(data.expenses) /\ Len(data.expenses.v) > 0

\* DataManager.saveRemoteData: the collections of the response replace the
\* local ones
saveRemoteData(s, data) ==
    saveCards(saveIncomes(saveExpenses(s, OrEmpty(data.expenses)), OrEmpty(data.incomes)),
              OrEmpty(data.cards))

\* pullData from its await on, with the response in data: the store, the
\* synchroniser and the suspended calls it leaves
pullDataSettled(c, nt, s, outcome, data, holdsGuard) ==
    LET overwrite == outcome = "ok" /\ HasExpenses(data)
        s1 == IF overwrite THEN saveRemoteData(s, data) ELSE s
        p == IF overwrite THEN DataUpdated(c, nt, s1) ELSE [cs |-> c, net |-> nt, sent |-> FALSE]
        c1 == updateUIStatus(p.cs, IF outcome = "ok" THEN "online" ELSE "error")
    IN  [s |-> s1, net |-> p.net, sent |-> p.sent, overwrite |-> overwrite,
         cs |-> IF holdsGuard THEN [c1 EXCEPT !.syncInProgress = FALSE] ELSE c1]

MaxPulls == 1   \* pullData is called while fewer pulls are suspended

\* the page after login: the repository loaded, the listener registered,
\* nothing sent yet
SyncInit(releases) ==
    /\ DMLoaded
    /\ EBIdle
    /\ SASIdle
    /\ \E release \in releases : cs = CloudSync(release)
    /\ net = <<>>
    /\ remote = Null
    /\ csLast = Sync("init")

SyncFrame == UNCHANGED <<ssRef, ssLast, ebVars, sasVars, lastDataHash, now, file>>

\* saveExpenses: the write, then notifyDataChange, whose data:updated event
\* runs the listener registered at login
SyncedSave ==
    \E l \in ListInputs :
        LET s == saveExpenses(store, l)
            p == DataUpdated(cs, net, s)
        IN  /\ Len(timers) < MaxTimers
            /\ store' = s
            /\ timers' = notifyDataChange(timers, now)
            /\ committed' = [committed EXCEPT !.expensesData = l]
            /\ burst' = BurstAfterMutation
            /\ dmLast' = Call("saveExpenses", NotifyEvents)
            /\ cs' = p.cs
            /\ net' = p.net
            /\ csLast' = [Sync("pushData") EXCEPT !.during = Pushes(net) # {},
                                                  !.sent = p.sent]
            /\ UNCHANGED remote
            /\ SyncFrame

\* a suspended pushData resumes; the server keeps the body of a POST it
\* answers with 2xx
PushSettles ==
    \E i \in Pushes(net), outcome \in Outcomes :
        /\ cs' = pushDataSettled(cs, outcome)
        /\ net' = RemoveAt(net, i)
        /\ remote' = IF outcome = "ok" THEN net[i].body ELSE remote
        /\ csLast' = [Sync("pushSettled") EXCEPT !.outcome = outcome,
                                                 !.before = Some(Collections(store))]
        /\ UNCHANGED <<store, timers, committed, burst, dmLast>>
        /\ SyncFrame

PullData ==
    /\ Cardinality(Pulls(net)) < MaxPulls
    /\ LET p == pullData(cs, net)
       IN  /\ cs' = p.cs
           /\ net' = p.net
           /\ csLast' = [Sync("pullData") EXCEPT !.sent = p.sent]
    /\ UNCHANGED <<store, timers, committed, burst, dmLast, remote>>
    /\ SyncFrame

PullSettles ==
    \E i \in Pulls(net), outcome \in Outcomes, data \in PullResponses :
        LET r == pullDataSettled(cs, RemoveAt(net, i), store, outcome, data, net[i].holdsGuard)
        IN  /\ r.overwrite => Len(timers) < MaxTimers
            /\ store' = r.s
            /\ timers' = IF r.overwrite THEN notifyDataChange(timers, now) ELSE timers
            /\ committed' = IF r.overwrite THEN getAllData(r.s) ELSE committed
            /\ burst' = IF r.overwrite THEN BurstAfterMutation ELSE burst
            /\ dmLast' = IF r.overwrite THEN Call("saveRemoteData", NotifyEvents) ELSE dmLast
            /\ cs' = r.cs
            /\ net' = r.net
            /\ csLast' = [Sync("pullSettled") EXCEPT !.outcome = outcome,
                                                 !.during = Pushes(net) # {},
                                                 !.sent = r.sent,
                                                 !.before = Some(Collections(store)),
                                                 !.data = Some(data)]
            /\ UNCHANGED remote
            /\ SyncFrame

\* pushes alone, in the release whose pullData leaves the flag alone
PushInit == SyncInit({"part_002"})
NextPush == SyncedSave \/ PushSettles
SpecPush == PushInit /\ [][NextPush]_vars

\* pulls and pushes, in both releases
PullInit == SyncInit(Releases)
NextSync == SyncedSave \/ PushSettles \/ PullData \/ PullSettles
SpecSync == PullInit /\ [][NextSync]_vars

-----------------------------------------------------------------------------
(* Properties *)

C2_RestoreMatchesSnapshot ==
    LET h == getAutoSaveVersions(store)
        hits == {i \in 1..Len(h) : h[i].id = dmLast.id}
    IN  (dmLast.op = "restoreAutoSaveVersion" /\ hits # {})
            => /\ dmLast.ok
               /\ \A i \in hits :
                     (\A j \in hits : i <= j)
                         => Collections(store) = BundleCollections(h[i].data)

\* C3: restoreAutoSaveVersion(id) with an id that no version of the history
\* has returns false and changes no stored key.
C3_RestoreMissLeavesStorage ==
    [][(/\ dmLast'.op = "restoreAutoSaveVersion"
        /\ \A i \in 1..Len(getAutoSaveVersions(store)) :
               getAutoSaveVersions(store)[i].id # dmLast'.id)
           => (~dmLast'.ok /\ store' = store)]_vars

C3_Witness ==
    /\ dmLast.op = "restoreAutoSaveVersion"
    /\ dmLast.id = 999
    /\ ~dmLast.ok
    /\ Len(getAutoSaveVersions(store)) = 2
    /\ getMonthlyGoal(store) = RawStr("800")

\* C4: the file exported in a state S, imported in any later state, leaves
\* every collection of the bundle (the three lists, both category lists, the
\* achievements and the monthly goal) equal to its value in S.
C4_ExportImportRoundTrip ==
    (dmLast.op = "loadFromFileInput" /\ dmLast.input = "exported" /\ file.text # Null)
        => (dmLast.ok /\ Collections(store) = file.from)

\* a parsed bundle in which one of the three lists is missing or is not a list
InvalidBundle(text) ==
    /\ text # Null
    /\ text.json
    /\ \/ text.v.expensesData.t # "list"
       \/ text.v.incomeData.t # "list"
       \/ text.v.cards.t # "list"

\* C5: importing a parsed bundle in which expensesData, incomeData or cards is
\* missing or is not a list is rejected and changes no stored key; and no
\* rejected import changes a stored key.
C5_InvalidImportRejected ==
    [][/\ (dmLast'.op = "loadFromFileInput" /\ InvalidBundle(FileText(dmLast'.input)))
             => (~dmLast'.ok /\ store' = store)
       /\ (dmLast'.op = "loadFromFileInput" /\ ~dmLast'.ok) => store' = store]_vars

C5_Witness ==
    /\ dmLast.op = "loadFromFileInput"
    /\ dmLast.input = "nocards"
    /\ ~dmLast.ok
    /\ file.text # Null
    /\ getExpenses(store) = <<2>>

\* C6: the auto-save history never holds more than maxAutoSaveVersions
\* versions and its ids never increase from head to tail.
C6_HistoryBoundedNewestFirst ==
    LET h == getAutoSaveVersions(store)
    IN  /\ Len(h) <= maxAutoSaveVersions
        /\ \A i \in 1..(Len(h) - 1) : h[i].id >= h[i + 1].id

C6_Witness ==
    LET h == getAutoSaveVersions(store)
    IN  /\ Len(h) = maxAutoSaveVersions
        /\ h[1].id > h[2].id
        /\ h[2].id >= 0
        /\ h[maxAutoSaveVersions].id > 0 - maxAutoSaveVersions

\* C7: of two consecutive autoSave() calls with no call in between, the
\* second adds no version when the first added one.
C7_SecondAutoSaveAddsNothing ==
    [][(dmLast.op = "autoSave" /\ dmLast.saved /\ dmLast'.op = "autoSave")
           => getAutoSaveVersions(store') = getAutoSaveVersions(store)]_vars

\* C8: every mutating call emits data:updated and leaves a deferred autoSave
\* pending, due within the delay; and once the deferred calls of a burst of two
\* or more mutating calls have all run, they have added at most one version.
C8_BurstAddsOneVersion ==
    /\ (dmLast.op \in {"saveExpenses", "saveIncomes", "saveCards", "addExpense",
                       "addIncome", "addCard", "saveExpenseCategories",
                       "saveIncomeCategories"})
          => /\ \E i \in 1..Len(dmLast.events) : dmLast.events[i] = "data:updated"
             /\ timers # <<>>
             /\ timers[Len(timers)] <= now + AUTO_SAVE_DELAY
    /\ (timers = <<>> /\ burst.k >= 2) => burst.added <= 1

\* the stored text of a key is not parseable JSON
Malformed(s, key) == s.ls[key] # Null /\ ~s.ls[key].json

\* C11: getJSON and getObject on a key whose stored text is malformed JSON
\* return the default they were given and change no stored key; and
\* loadInitialData over a malformed appData changes no stored key.
C11_MalformedReadPreserves ==
    [][/\ (dmLast'.op \in {"getJSON", "getObject"} /\ Malformed(store, dmLast'.input))
             => (dmLast'.ok /\ store' = store)
       /\ (dmLast'.op = "loadInitialData" /\ Malformed(store, "appData"))
             => store' = store]_vars

\* the version a stored appData text carries: 0 when it carries none
VersionRank(str) ==
    IF str = Null THEN 0
    ELSE IF ~str.json THEN 0
    ELSE CASE str.v.version = "1.0" -> 1
           [] str.v.version = "2.0" -> 2
           [] str.v.version = "3.0" -> 3
           [] OTHER -> 0

\* C12: no step (startup, snapshot, import, restore) lowers the version of
\* the bundle stored under appData.
C12_VersionNeverDecreases ==
    [][VersionRank(store'.ls["appData"]) >= VersionRank(store.ls["appData"])]_vars

\* the listeners of the emitted event before the last call, the wrapper with
\* a given uid among them, and whether the call left that wrapper registered
Before == ebLast.before[ebLast.eventName]
WrapperOf(uid) == CHOOSE w \in {Before[i] : i \in 1..Len(Before)} : w.uid = uid
Registered(uid) ==
    \E i \in 1..Len(events[ebLast.eventName]) : events[ebLast.eventName][i].uid = uid
\* an invoked handler that stopped the emit
Stopped(uid) ==
    WrapperOf(uid).callback = "returnsFalse" /\ ~ebLast.options.ignoreStopPropagation

\* C13: an emit invokes handlers registered on the event, none twice, in
\* non-increasing priority; when an invoked handler returns false and
\* ignoreStopPropagation is not set, no handler of lower priority is invoked;
\* when no handler stops the emit (none returns false, or
\* ignoreStopPropagation is set) every registered handler is invoked.
C13_PriorityOrderAndStop ==
    ebLast.op = "emit" =>
        LET inv == ebLast.invoked
        IN  /\ \A i \in 1..Len(inv) : \E j \in 1..Len(Before) : Before[j].uid = inv[i]
            /\ \A i, j \in 1..Len(inv) :
                   i < j => /\ inv[i] # inv[j]
                            /\ WrapperOf(inv[i]).priority >= WrapperOf(inv[j]).priority
            /\ \A i, j \in 1..Len(inv) :
                   Stopped(inv[i]) => WrapperOf(inv[j]).priority >= WrapperOf(inv[i]).priority
            /\ (\A i \in 1..Len(inv) : ~Stopped(inv[i])) => Len(inv) = Len(Before)

C13_Witness ==
    /\ ebLast.op = "emit"
    /\ Len(Before) = 3
    /\ Len(ebLast.invoked) = 2
    /\ Before[1].priority = 0
    /\ Before[2].priority = 1
    /\ Before[3].priority = 1
    /\ ebLast.invoked = <<2, 3>>
    /\ Stopped(3)

\* C14: emit returns true exactly when it called at least one handler.
C14_TrueIffHandlerExecuted ==
    ebLast.op = "emit" => (ebLast.ret <=> ebLast.invoked # <<>>)

\* C15: the function returned by the k-th registration removes the wrapper
\* that registration made, if it is still registered, and changes nothing else.
C15_UnsubscribeRemovesOwn ==
    (ebLast.op = "unsubscribe" /\ unsubs[ebLast.uid] # NoopUnsubscribe)
        => \A e \in EventNames :
               events[e] = SelectSeq(ebLast.before[e], LAMBDA w : w.uid # ebLast.uid)

\* C16: a handler registered with once is no longer registered after an emit
\* that called it.
C16_OnceRemovedAfterInvocation ==
    ebLast.op = "emit" =>
        \A i \in 1..Len(ebLast.invoked) :
            WrapperOf(ebLast.invoked[i]).once => ~Registered(ebLast.invoked[i])

\* C17: in an emit that calls a handler that throws, the loop still ends only
\* at the last handler or at a handler that stops the emit, the handlers are
\* called in non-increasing priority, and each handler that threw is
\* deregistered exactly when removeOnError is set.
C17_ThrowDoesNotStopEmit ==
    LET inv == ebLast.invoked
        threw == {i \in 1..Len(inv) : WrapperOf(inv[i]).callback = "throws"}
    IN  (ebLast.op = "emit" /\ threw # {})
            => /\ Len(inv) = Len(Before) \/ Stopped(inv[Len(inv)])
               /\ \A i, j \in 1..Len(inv) :
                      i < j => WrapperOf(inv[i]).priority >= WrapperOf(inv[j]).priority
               /\ \A i \in threw : ~Registered(inv[i]) <=> ebLast.options.removeOnError

C17_Witness ==
    /\ ebLast.op = "emit"
    /\ Len(Before) = 3
    /\ ebLast.invoked = <<2, 1, 3>>
    /\ WrapperOf(2).callback = "throws"
    /\ WrapperOf(1).callback = "returns"
    /\ ebLast.options.removeOnError
    /\ ~Registered(2)
    /\ Registered(1)

\* a scheduling decision: this step armed the auto-save timer
Scheduled ==
    /\ sas'.state.isActive
    /\ sasTimers'.autoSave # NoTimer
    /\ sasTimers'.autoSave # sasTimers.autoSave

IdleFor(span) == now - sas'.state.lastActivity >= span

\* C18: while the scheduler is active, an attempt scheduled when no activity
\* has been observed for inactivityThreshold (and one period of the inactivity
\* check, so that the check has run) is scheduled with inactiveInterval, and
\* an activity event observed while the user counts as inactive schedules the
\* next attempt with baseInterval
C18_IdleAdaptsInterval ==
    [][/\ (Scheduled /\ IdleFor(inactivityThreshold + ActivityCheckPeriod))
            => sasTimers'.autoSave = now + inactiveInterval
       /\ (sas.state.isActive /\ ~sas.state.isUserActive /\ sasLast'.op = "updateActivity"
            /\ sasLast' # sasLast)
            => sasTimers'.autoSave = now + baseInterval]_vars

\* an attempt ran in this step: performSave, the debounced executeSave, or
\* the end of an awaited executeSave
Attempted ==
    /\ sasLast' # sasLast
    /\ sasLast'.op \in {"performSave", "debounce", "executeSave"}

\* an attempt is pending (a timer is armed) or running (executeSave awaits)
PendingOrRunning(state, armed) ==
    \/ armed.autoSave # NoTimer
    \/ armed.debounce # NoTimer
    \/ state.executing # NoTimer

\* C19: while the scheduler is active, every attempt, whatever its outcome,
\* leaves a next attempt pending or running
C19_EveryOutcomeReschedules ==
    [][(Attempted /\ sas'.state.isActive) => PendingOrRunning(sas'.state, sasTimers')]_vars

\* the repository content is what the newest snapshot holds
UnchangedSinceSnapshot(s) ==
    LET h == getAutoSaveVersions(s)
    IN  h # <<>> /\ Collections(s) = BundleCollections(h[1].data)

\* C20: an attempt made while the content is what the newest snapshot holds
\* is skipped: it calls nothing, leaves the storage alone and arms the
\* auto-save timer
C20_UnchangedContentSkips ==
    [][(sasLast' # sasLast /\ sasLast'.op = "performSave" /\ UnchangedSinceSnapshot(store))
          => /\ sasLast'.outcome = "skip"
             /\ sasLast'.callee = "none"
             /\ store' = store
             /\ sasTimers'.autoSave = now + sas'.state.currentInterval]_vars

\* C21: while the scheduler is stopped no timer is pending, and the last
\* thing that ran is not an attempt started by a timer: stop() cancelled the
\* auto-save, debounce and inactivity timers, and an attempt that ends while
\* the scheduler is stopped arms nothing
C21_StoppedHasNoTimers ==
    ~sas.state.isActive
       => /\ sasTimers = NoTimers
          /\ sasLast.op \notin {"performSave", "debounce"}

\* an attempt ended with a save while the scheduler was stopped
C21_Witness ==
    /\ ~sas.state.isActive
    /\ sasLast.op = "executeSave"
    /\ sasLast.outcome = "saved"
    /\ sas.state.saveCount > 0

\* C25: start() on a stopped scheduler makes it active and schedules the
\* first attempt baseInterval later
C25_StartUsesBaseInterval ==
    [][(~sas.state.isActive /\ sasLast'.op = "start" /\ sasLast' # sasLast)
          => /\ sas'.state.isActive
             /\ sas'.state.currentInterval = baseInterval
             /\ sasTimers'.autoSave = now + baseInterval]_vars

\* C28: an active scheduler that has seen no activity for inactivityThreshold
\* and one period of the inactivity check counts the user as inactive and runs
\* on inactiveInterval, however many times the interval was adjusted before
C28_IdleDetectedAgain ==
    (sas.state.isActive /\ now - sas.state.lastActivity >= inactivityThreshold + ActivityCheckPeriod)
       => /\ ~sas.state.isUserActive
          /\ sas.state.currentInterval = inactiveInterval

\* C26: every emit, nested or not, calls the handlers registered when it
\* started, in priority order, and no other: the outer emit those registered
\* before the call, whatever the handlers registered or unregistered meanwhile
C26_EmitDispatchesToSnapshot ==
    (ebLast.op = "emit" /\ ebLast.dispatches # <<>>)
       => /\ ebLast.dispatches[1].registered
                = Uids(SortByPriority(ebLast.before[ebLast.eventName]))
          /\ \A k \in 1..Len(ebLast.dispatches) :
                ebLast.dispatches[k].invoked = ebLast.dispatches[k].registered

\* one emit during which a handler was registered and left uncalled, a
\* handler was unregistered and still called, and the event was emitted again
C26_Witness ==
    /\ ebLast.op = "emit"
    /\ Len(ebLast.dispatches) >= 2
    /\ LET d == ebLast.dispatches[1]
           called == {d.invoked[i] : i \in 1..Len(d.invoked)}
           left == {events[ebLast.eventName][i].uid : i \in 1..Len(events[ebLast.eventName])}
           was == ebLast.before[ebLast.eventName]
           removedAsOnce == {was[i].uid : i \in {i \in 1..Len(was) : was[i].once}}
       IN  /\ left \ called # {}
           /\ (called \ left) \ removedAsOnce # {}

\* C27: when the page is reloaded after a successful import, with or without
\* snapshots in between, every collection is the imported bundle's collection
C27_ImportSurvivesReload ==
    [][(dmLast.imported # "" /\ dmLast'.op = "loadInitialData")
          => Collections(store') = BundleCollections(FileText(dmLast.imported).v)]_vars

\* every deferred snapshot has run and a snapshot was the last call
Settled == timers = <<>> /\ dmLast.op = "autoSave"

\* C30: once every deferred snapshot of the mutating calls has run, appData
\* holds the collections the per-collection keys hold, the newest entry of the
\* snapshot history holds the same bundle, and loadInitialData leaves every
\* collection as it is
C30_SettledBundleMatchesKeys ==
    Settled
       => LET appData == getJSON(store, "appData", Null)
          IN  /\ appData # Null
              /\ BundleCollections(appData) = Collections(store)
              /\ getAutoSaveVersions(store) # <<>>
              /\ getAutoSaveVersions(store)[1].data = appData
              /\ Collections(loadInitialData(store)) = Collections(store)

\* two mutating calls, the second after the snapshot of the first, and the
\* snapshot of the second has run
C30_Witness ==
    /\ Settled
    /\ SessionVersions(store) >= 2
    /\ dmLast.saved
    /\ getExpenses(store) # <<>>

\* C22: at most one pushData is suspended at any time; a pushData call made
\* while one is suspended issues no request; and the flag is down whenever no
\* call that took it is suspended, whatever the outcome of that call was
C22_SingleFlightPush ==
    /\ Cardinality(Pushes(net)) <= 1
    /\ (csLast.op = "pushData" /\ csLast.during) => ~csLast.sent
    /\ (\A i \in 1..Len(net) : ~net[i].holdsGuard) => ~cs.syncInProgress

\* a mutation during a suspended push: its pushData call was turned away
C22_Witness ==
    /\ csLast.op = "pushData"
    /\ csLast.during
    /\ ~csLast.sent
    /\ Cardinality(Pushes(net)) = 1

\* C23: a pullData or pushData whose token, request or response failed ends
\* with the status error and with every local collection as it was
C23_FailureEndsInError ==
    (csLast.op \in {"pullSettled", "pushSettled"} /\ csLast.outcome # "ok")
       => /\ cs.status = "error"
          /\ Some(Collections(store)) = csLast.before

\* the response of the last pullData has a list of expenses that is not empty
PulledExpenses ==
    /\ csLast.outcome = "ok"
    /\ IsArray(csLast.data.v.expenses)
    /\ csLast.data.v.expenses.v # <<>>

C29_SettledRemoteEqualsLocal ==
    (Pushes(net) = {} /\ csLast.op = "pushSettled" /\ csLast.outcome = "ok")
       => remote = Some(PushBody(store))

====
